---- MODULE Spec2Model ----
(***************************************************************************)
(* Model of src/cloud/main.py: the Node.js presence check, the Linux       *)
(* distribution detection, the three installation strategies and the main  *)
(* flow that composes them.  Text read from /etc/os-release is modelled as  *)
(* a sequence of one-character strings so that splitting, stripping,       *)
(* lower-casing and substring tests are computed the way the code does.     *)
(***************************************************************************)
EXTENDS Integers, Sequences, FiniteSets, TLC

VARIABLES pc, platform, euid, osrelease, warned, distro, idx, script,
          strategies, log, setupCalls, outcome, exitCode,
          twin    \* a second run of the script: same host and same command
                  \* results, the other privilege level

vars == <<pc, platform, euid, osrelease, warned, distro, idx, script,
          strategies, log, setupCalls, outcome, exitCode, twin>>

(***************************************************************************)
(* Text helpers (Python str semantics on sequences of characters).         *)
(***************************************************************************)
UpperChars == <<"A","B","C","D","E","F","G","H","I","J","K","L","M",
                "N","O","P","Q","R","S","T","U","V","W","X","Y","Z">>
LowerChars == <<"a","b","c","d","e","f","g","h","i","j","k","l","m",
                "n","o","p","q","r","s","t","u","v","w","x","y","z">>

\* str.lower() on one character
lower_char(c) ==
    IF \E i \in 1..Len(UpperChars) : UpperChars[i] = c
    THEN LowerChars[CHOOSE i \in 1..Len(UpperChars) : UpperChars[i] = c]
    ELSE c

\* str.lower()
lower(s) == [i \in 1..Len(s) |-> lower_char(s[i])]

\* c in s, for a single character c
has_char(s, c) == \E i \in 1..Len(s) : s[i] = c

\* s.index(c): position of the first occurrence of c
first_index(s, c) ==
    CHOOSE i \in 1..Len(s) : s[i] = c /\ \A j \in 1..(i-1) : s[j] # c

\* sub in s (substring test)
contains(s, sub) ==
    \E i \in 0..(Len(s) - Len(sub)) : SubSeq(s, i+1, i+Len(sub)) = sub

\* s.split('\n')
RECURSIVE split_lines(_)
split_lines(s) ==
    IF ~has_char(s, "\n") THEN <<s>>
    ELSE LET i == first_index(s, "\n")
         IN  <<SubSeq(s, 1, i-1)>> \o split_lines(SubSeq(s, i+1, Len(s)))

\* s.lstrip(c) and s.rstrip(c): every leading / trailing c is removed
RECURSIVE lstrip(_, _)
lstrip(s, c) ==
    IF Len(s) > 0 /\ s[1] = c THEN lstrip(Tail(s), c) ELSE s

RECURSIVE rstrip(_, _)
rstrip(s, c) ==
    IF Len(s) > 0 /\ s[Len(s)] = c THEN rstrip(SubSeq(s, 1, Len(s)-1), c) ELSE s

\* s.strip(c)
strip(s, c) == rstrip(lstrip(s, c), c)

\* variant: the value is what follows the last '=' (split without maxsplit)
split_value_m(line) ==
    LET last == CHOOSE i \in 1..Len(line) :
                    line[i] = "=" /\ \A j \in (i+1)..Len(line) : line[j] # "="
    IN  SubSeq(line, last + 1, Len(line))

\* line.split('=', 1): key before the first '=', value after it
split_key(line)   == SubSeq(line, 1, first_index(line, "=") - 1)
split_value(line) == SubSeq(line, first_index(line, "=") + 1, Len(line))

(***************************************************************************)
(* Words and the /etc/os-release files the runs are started with.          *)
(***************************************************************************)
w_debian == <<"d","e","b","i","a","n">>
w_ubuntu == <<"u","b","u","n","t","u">>
w_rhel   == <<"r","h","e","l">>
w_centos == <<"c","e","n","t","o","s">>
w_fedora == <<"f","e","d","o","r","a">>
w_arch   == <<"a","r","c","h">>
w_mint   == <<"m","i","n","t">>
w_rocky  == <<"r","o","c","k","y">>
k_ID      == <<"I","D">>
k_ID_LIKE == <<"I","D","_","L","I","K","E">>
k_NAME    == <<"N","A","M","E">>
EQ == <<"=">>
NL == <<"\n">>
QT == <<"\"">>

Contents ==
    { k_ID \o EQ \o w_ubuntu,
      k_ID \o EQ \o w_debian \o NL,
      k_ID \o EQ \o QT \o <<"U">> \o Tail(w_ubuntu) \o QT,
      k_ID \o EQ \o w_fedora,
      k_ID \o EQ \o QT \o w_centos \o QT \o NL \o k_ID_LIKE \o EQ \o QT \o w_rhel \o <<" ">> \o w_fedora \o QT,
      k_ID \o EQ \o w_arch,
      k_ID \o EQ \o w_mint \o NL \o k_ID_LIKE \o EQ \o w_ubuntu,
      k_ID \o EQ \o w_rocky \o NL \o k_ID_LIKE \o EQ \o w_rhel,
      k_ID \o EQ \o w_fedora \o NL \o k_ID_LIKE \o EQ \o w_debian,
      k_ID_LIKE \o EQ \o w_debian,
      k_ID_LIKE \o EQ \o w_fedora \o NL \o k_NAME \o EQ \o w_fedora,
      k_ID \o w_ubuntu,
      w_debian \o NL \o w_debian,
      EQ \o w_ubuntu,
      k_ID \o EQ \o w_arch \o NL \o k_ID_LIKE \o EQ \o <<"x">> \o w_fedora,
      k_ID \o EQ \o <<"U">> \o Tail(w_ubuntu),
      k_ID \o EQ \o QT \o w_ubuntu \o QT,
      k_ID \o EQ \o w_rhel \o NL \o k_ID_LIKE \o EQ \o <<"a">> \o EQ \o w_fedora,
      w_arch \o NL \o k_ID \o EQ \o w_centos,
      <<>> }

\* what open('/etc/os-release').read() can do: return the text, or raise
OsReleaseFiles ==
    [state : {"ok"}, content : Contents]
      \cup [state : {"missing", "denied", "undecodable"}, content : {<<>>}]

(***************************************************************************)
(* check_node_installed                                                    *)
(***************************************************************************)
\* result of one subprocess.run(..., check=True): exit 0, non-zero exit
\* (CalledProcessError), the executable argv[0] cannot be found
\* (FileNotFoundError), or it cannot be executed for another reason (another
\* OSError, such as the PermissionError for a file that is not executable)
Results == {"ok", "fail", "notfound", "oserror"}

\* the return value of check_node_installed
check_node_installed(r) == r = "ok"

\* check_node_installed catches CalledProcessError and FileNotFoundError
\* only (line 23): any other exception leaves it, and leaves main
check_node_raises(r) == r = "oserror"

(***************************************************************************)
(* detect_linux_distro                                                     *)
(***************************************************************************)
\* the (None, None) return value
NoDistro == [known |-> FALSE, id |-> <<>>, id_like |-> <<>>]

\* distro_info.get(key, ''): the last line "key=value" wins, as in a dict
RECURSIVE info_get(_, _)
info_get(lines, key) ==
    IF lines = <<>> THEN <<>>
    ELSE LET line == lines[Len(lines)]
         IN  IF has_char(line, "=") /\ split_key(line) = key
             THEN strip(split_value(line), "\"")
             ELSE info_get(SubSeq(lines, 1, Len(lines)-1), key)

\* variant: when no ID line is found the first line is taken as the id
detect_linux_distro_m(file) ==
    IF file.state # "ok" THEN NoDistro
    ELSE LET lines == split_lines(file.content)
             found == info_get(lines, k_ID)
         IN  [known   |-> TRUE,
              id      |-> lower(IF found = <<>> THEN lines[1] ELSE found),
              id_like |-> lower(info_get(lines, k_ID_LIKE))]

detect_linux_distro(file) ==
    IF file.state # "ok" THEN NoDistro
    ELSE LET lines == split_lines(file.content)
         IN  [known   |-> TRUE,
              id      |-> lower(info_get(lines, k_ID)),
              id_like |-> lower(info_get(lines, k_ID_LIKE))]

(***************************************************************************)
(* install_nodejs: which strategy is entered first                         *)
(***************************************************************************)
\* variant: the "if not distro_id" guard is left out
install_nodejs_first_m(d) ==
    IF d.id \in {w_debian, w_ubuntu}
       \/ \E like \in {w_debian, w_ubuntu} : contains(d.id_like, like)
    THEN "Debian"
    ELSE IF d.id \in {w_rhel, w_centos, w_fedora}
            \/ \E like \in {w_rhel, w_fedora} : contains(d.id_like, like)
         THEN "RedHat"
    ELSE "Fallback"

install_nodejs_first(d) ==
    IF ~d.known \/ d.id = <<>> THEN "Fallback"
    ELSE IF d.id \in {w_debian, w_ubuntu}
            \/ \E like \in {w_debian, w_ubuntu} : contains(d.id_like, like)
         THEN "Debian"
    ELSE IF d.id \in {w_rhel, w_centos, w_fedora}
            \/ \E like \in {w_rhel, w_fedora} : contains(d.id_like, like)
         THEN "RedHat"
    ELSE "Fallback"

\* variant: the "return True" after a successful family strategy is missing
install_nodejs_after_family_f(ret) == "Fallback"

\* variant: "return install_nodejs_..._based()", no fall-through to the fallback
install_nodejs_after_family_m(ret) == IF ret THEN "verify" ELSE "exit1"

\* install_nodejs after a family strategy returned ret
install_nodejs_after_family(ret) == IF ret THEN "verify" ELSE "Fallback"

(***************************************************************************)
(* The command lists of the strategies                                     *)
(***************************************************************************)
DebUrl == "https://deb.nodesource.com/setup_18.x"
RpmUrl == "https://rpm.nodesource.com/setup_18.x"

\* what a fetch can print on stdout
Scripts == {"scriptA", "scriptB"}

debian_steps(s) ==
    << <<"sudo", "apt", "update">>,
       <<"sudo", "apt", "install", "-y", "curl", "gnupg">>,
       <<"curl", "-fsSL", DebUrl>>,
       <<"curl", "-fsSL", DebUrl>>,
       <<"sudo", "-E", "bash", "-c", s>>,
       <<"sudo", "apt", "install", "-y", "nodejs">> >>

redhat_steps(s) ==
    << <<"sudo", "yum", "install", "-y", "curl">>,
       <<"curl", "-fsSL", RpmUrl>>,
       <<"sudo", "-E", "bash", "-c", s>>,
       <<"sudo", "yum", "install", "-y", "nodejs">> >>

\* variant: the last entry of the list is missing
package_managers_m ==
    << <<"apt", "install", "-y", "nodejs", "npm">>,
       <<"yum", "install", "-y", "nodejs", "npm">>,
       <<"dnf", "install", "-y", "nodejs", "npm">>,
       <<"zypper", "install", "-y", "nodejs", "npm">> >>

package_managers ==
    << <<"apt", "install", "-y", "nodejs", "npm">>,
       <<"yum", "install", "-y", "nodejs", "npm">>,
       <<"dnf", "install", "-y", "nodejs", "npm">>,
       <<"zypper", "install", "-y", "nodejs", "npm">>,
       <<"pacman", "-S", "--noconfirm", "nodejs", "npm">> >>

\* variant: the output of the first, discarded fetch is what gets executed
debian_capture_m == 4 - 1

\* steps whose stdout is captured into setup_script
debian_capture == 4
redhat_capture == 2

\* variant: the commands are run without check=True
family_on_result_m(r) ==
    CASE r = "ok"       -> "next"
      [] r = "fail"     -> "next"
      [] r = "notfound" -> "raise"
      [] r = "oserror"  -> "raise"

\* how a family strategy reacts to the result of one command:
\* "next" (go on), "false" (except CalledProcessError), "raise" (not caught)
family_on_result(r) ==
    CASE r = "ok"       -> "next"
      [] r = "fail"     -> "false"
      [] r = "notfound" -> "raise"
      [] r = "oserror"  -> "raise"

\* variant: the loop runs the command without check=True
fallback_on_result_m(r) ==
    CASE r = "ok"       -> "true"
      [] r = "fail"     -> "true"
      [] r = "notfound" -> "continue"
      [] r = "oserror"  -> "abort"

\* how install_nodejs_fallback reacts to the result of one command: "true"
\* (return True), "continue" (inner except, next manager), "abort" (the
\* outer "except Exception" of lines 140-142: return False at once)
fallback_on_result(r) ==
    CASE r = "ok"       -> "true"
      [] r = "fail"     -> "continue"
      [] r = "notfound" -> "continue"
      [] r = "oserror"  -> "abort"

(***************************************************************************)
(* main                                                                    *)
(***************************************************************************)
\* variant: only Windows is refused
platform_supported_m(p) == p # "Windows"

platform_supported(p) == p = "Linux"

RootUid == 0

\* variant: a process that is not root is refused
privilege_gate_m(uid) == IF uid # RootUid THEN "exit1" ELSE "precheck"

\* main, lines 176-180: a process that is not root is only warned
privilege_gate(uid) == "precheck"

\* variant: the installation is started whatever the first check says
main_after_precheck_m(installed) == "detect"

main_after_precheck(installed) == IF installed THEN "setup" ELSE "detect"

\* variant: the result of the first check (absent) is reused after the install
main_after_verify_cached(installed) == "exit1"

\* variant: the result of the second check is ignored
main_after_verify_m(installed) == "setup"

main_after_verify(installed) == IF installed THEN "setup" ELSE "exit1"

\* variant: the sys.exit(1) after a failed installation is missing
main_after_install_failed_m == "setup"

main_after_install_failed == "exit1"

Event(by, argv, r, out) == [by |-> by, argv |-> argv, res |-> r, out |-> out]

Strat(kind, ret) == [kind |-> kind, ret |-> ret]

SetLast(s, e) == [s EXCEPT ![Len(s)] = e]

Init ==
    /\ pc = "start"
    /\ platform \in {"Linux", "Darwin", "Windows"}
    /\ euid \in {RootUid, 1000}
    /\ osrelease \in OsReleaseFiles
    /\ warned = FALSE
    /\ distro = NoDistro
    /\ idx = 0
    /\ script = ""
    /\ strategies = <<>>
    /\ log = <<>>
    /\ setupCalls = 0
    /\ outcome = "none"
    /\ exitCode = -1
    /\ twin = [pc |-> "start", platform |-> platform,
               euid |-> IF euid = RootUid THEN 1000 ELSE RootUid,
               osrelease |-> osrelease, warned |-> FALSE, distro |-> NoDistro,
               idx |-> 0, script |-> "", strategies |-> <<>>, log |-> <<>>,
               setupCalls |-> 0, outcome |-> "none", exitCode |-> -1]

\* sys.exit(1)
Exit1 ==
    /\ pc' = "done"
    /\ outcome' = "failure"
    /\ exitCode' = 1

\* an exception nobody catches (from a family strategy or from
\* check_node_installed): traceback, interpreter exits with status 1
Crash ==
    /\ pc' = "done"
    /\ outcome' = "crash"
    /\ exitCode' = 1

\* go to the position named by a main_after_* result
Goto(target) ==
    IF target = "exit1" THEN Exit1
    ELSE /\ pc' = target
         /\ UNCHANGED <<outcome, exitCode>>

(***************************************************************************)
(* The second run.  twin_step(s, e) is the step the script takes from the  *)
(* position s.pc when the command it spawns there (if any) ends as the     *)
(* event e did: the same statements as the actions below, on a record.     *)
(***************************************************************************)
T_Goto(s, target) ==
    IF target = "exit1"
    THEN [s EXCEPT !.pc = "done", !.outcome = "failure", !.exitCode = 1]
    ELSE [s EXCEPT !.pc = target]

T_Crash(s) == [s EXCEPT !.pc = "done", !.outcome = "crash", !.exitCode = 1]

T_Log(s, by, argv, e) == [s EXCEPT !.log = Append(@, Event(by, argv, e.res, e.out))]

T_FamilyReturns(s, kind, ret) ==
    LET nxt  == install_nodejs_after_family(ret)
        done == SetLast(s.strategies, Strat(kind, IF ret THEN "true" ELSE "false"))
    IN  T_Goto([s EXCEPT !.strategies = IF nxt = "Fallback"
                                        THEN Append(done, Strat("Fallback", "running"))
                                        ELSE done,
                         !.idx = IF nxt = "Fallback" THEN 1 ELSE 0],
               nxt)

T_FamilyStep(s, kind, steps, capture, e) ==
    LET s1 == [T_Log(s, kind, steps[s.idx], e) EXCEPT
                 !.script = IF e.res = "ok" /\ s.idx = capture THEN e.out ELSE @]
        react == family_on_result(e.res)
    IN  CASE react = "next" /\ s.idx < Len(steps) -> [s1 EXCEPT !.idx = @ + 1]
          [] react = "next" /\ s.idx = Len(steps) -> T_FamilyReturns(s1, kind, TRUE)
          [] react = "false" -> T_FamilyReturns(s1, kind, FALSE)
          [] react = "raise" ->
               T_Crash([s1 EXCEPT !.strategies = SetLast(@, Strat(kind, "raised")),
                                  !.idx = 0])

T_FallbackStep(s, e) ==
    LET s1 == T_Log(s, "Fallback", <<"sudo">> \o package_managers[s.idx], e)
        react == fallback_on_result(e.res)
    IN  CASE react = "true" ->
               [s1 EXCEPT !.strategies = SetLast(@, Strat("Fallback", "true")),
                          !.idx = 0, !.pc = "verify"]
          [] react = "continue" /\ s.idx < Len(package_managers) ->
               [s1 EXCEPT !.idx = @ + 1]
          [] react = "abort" \/ (react = "continue" /\ s.idx = Len(package_managers)) ->
               T_Goto([s1 EXCEPT !.strategies = SetLast(@, Strat("Fallback", "false")),
                                 !.idx = 0],
                      main_after_install_failed)

twin_step(s, e) ==
    CASE s.pc = "start" ->
           IF platform_supported(s.platform)
           THEN T_Goto([s EXCEPT !.warned = (s.euid # RootUid)], privilege_gate(s.euid))
           ELSE T_Goto(s, "exit1")
      [] s.pc = "precheck" ->
           IF check_node_raises(e.res)
           THEN T_Crash(T_Log(s, "check", <<"node", "--version">>, e))
           ELSE T_Goto(T_Log(s, "check", <<"node", "--version">>, e),
                       main_after_precheck(check_node_installed(e.res)))
      [] s.pc = "detect" ->
           [s EXCEPT !.distro = detect_linux_distro(s.osrelease),
                     !.log = Append(@, Event("detect", <<"/etc/os-release">>,
                                     IF s.osrelease.state = "ok" THEN "ok" ELSE "fail", "")),
                     !.pc = "select"]
      [] s.pc = "select" ->
           [s EXCEPT !.pc = install_nodejs_first(s.distro),
                     !.strategies = Append(@, Strat(install_nodejs_first(s.distro), "running")),
                     !.idx = 1]
      [] s.pc = "Debian" ->
           T_FamilyStep(s, "Debian", debian_steps(s.script), debian_capture, e)
      [] s.pc = "RedHat" ->
           T_FamilyStep(s, "RedHat", redhat_steps(s.script), redhat_capture, e)
      [] s.pc = "Fallback" -> T_FallbackStep(s, e)
      [] s.pc = "verify" ->
           IF check_node_raises(e.res)
           THEN T_Crash(T_Log(s, "check", <<"node", "--version">>, e))
           ELSE T_Goto(T_Log(s, "check", <<"node", "--version">>, e),
                       main_after_verify(check_node_installed(e.res)))
      [] s.pc = "setup" ->
           [s EXCEPT !.log = Append(@, Event("main", <<"setup", "http">>, "ok", "")),
                     !.setupCalls = @ + 1, !.pc = "done",
                     !.outcome = "success", !.exitCode = 0]
      [] OTHER -> s

\* the second run takes its step with the result the first run's command had
TwinFollows ==
    twin' = twin_step(twin, IF Len(log') > Len(log) THEN log'[Len(log')]
                            ELSE Event("none", <<>>, "fail", ""))

\* main, lines 172-180
PlatformGate ==
    /\ pc = "start"
    /\ IF platform_supported(platform)
       THEN /\ warned' = (euid # RootUid)
            /\ Goto(privilege_gate(euid))
       ELSE /\ Exit1
            /\ UNCHANGED warned
    /\ UNCHANGED <<platform, euid, osrelease, distro, idx, script,
                   strategies, log, setupCalls>>
    /\ TwinFollows

\* main, line 183: the first check_node_installed()
PreCheck ==
    /\ pc = "precheck"
    /\ \E r \in Results :
         /\ log' = Append(log, Event("check", <<"node", "--version">>, r, ""))
         /\ IF check_node_raises(r) THEN Crash
            ELSE Goto(main_after_precheck(check_node_installed(r)))
    /\ UNCHANGED <<platform, euid, osrelease, warned, distro, idx, script,
                   strategies, setupCalls>>
    /\ TwinFollows

\* install_nodejs, line 147: detect_linux_distro()
DetectDistro ==
    /\ pc = "detect"
    /\ distro' = detect_linux_distro(osrelease)
    /\ log' = Append(log, Event("detect", <<"/etc/os-release">>,
                                IF osrelease.state = "ok" THEN "ok" ELSE "fail", ""))
    /\ pc' = "select"
    /\ UNCHANGED <<platform, euid, osrelease, warned, idx, script,
                   strategies, setupCalls, outcome, exitCode>>
    /\ TwinFollows

\* install_nodejs, lines 149-165: entering the first strategy
SelectStrategy ==
    /\ pc = "select"
    /\ LET kind == install_nodejs_first(distro)
       IN  /\ pc' = kind
           /\ strategies' = Append(strategies, Strat(kind, "running"))
    /\ idx' = 1
    /\ UNCHANGED <<platform, euid, osrelease, warned, distro, script,
                   log, setupCalls, outcome, exitCode>>
    /\ TwinFollows

\* install_nodejs, lines 155-165: a family strategy returned ret
FamilyReturns(kind, ret) ==
    LET nxt  == install_nodejs_after_family(ret)
        done == SetLast(strategies, Strat(kind, IF ret THEN "true" ELSE "false"))
    IN  /\ strategies' = IF nxt = "Fallback"
                         THEN Append(done, Strat("Fallback", "running"))
                         ELSE done
        /\ idx' = IF nxt = "Fallback" THEN 1 ELSE 0
        /\ Goto(nxt)

\* one subprocess.run of a family strategy, and what follows its result
FamilyStep(kind, steps, capture) ==
    /\ pc = kind
    /\ \E r \in Results :
       \E out \in (IF r = "ok" /\ steps[idx][1] = "curl" THEN Scripts ELSE {""}) :
         /\ log' = Append(log, Event(kind, steps[idx], r, out))
         /\ script' = IF r = "ok" /\ idx = capture THEN out ELSE script
         /\ LET react == family_on_result(r)
            IN  CASE react = "next" /\ idx < Len(steps) ->
                       /\ idx' = idx + 1
                       /\ UNCHANGED <<pc, strategies, outcome, exitCode>>
                  [] react = "next" /\ idx = Len(steps) ->
                       FamilyReturns(kind, TRUE)
                  [] react = "false" ->
                       FamilyReturns(kind, FALSE)
                  [] react = "raise" ->
                       /\ strategies' = SetLast(strategies, Strat(kind, "raised"))
                       /\ idx' = 0
                       /\ Crash
    /\ UNCHANGED <<platform, euid, osrelease, warned, distro, setupCalls>>
    /\ TwinFollows

\* install_nodejs_debian_based
DebianStep == FamilyStep("Debian", debian_steps(script), debian_capture)

\* install_nodejs_redhat_based
RedHatStep == FamilyStep("RedHat", redhat_steps(script), redhat_capture)

\* install_nodejs_fallback: one pass of the loop over package_managers
FallbackStep ==
    /\ pc = "Fallback"
    /\ \E r \in Results :
         /\ log' = Append(log, Event("Fallback", <<"sudo">> \o package_managers[idx], r, ""))
         /\ LET react == fallback_on_result(r)
            IN  CASE react = "true" ->
                       /\ strategies' = SetLast(strategies, Strat("Fallback", "true"))
                       /\ idx' = 0
                       /\ pc' = "verify"
                       /\ UNCHANGED <<outcome, exitCode>>
                  [] react = "continue" /\ idx < Len(package_managers) ->
                       /\ idx' = idx + 1
                       /\ UNCHANGED <<pc, strategies, outcome, exitCode>>
                  [] react = "abort" \/ (react = "continue" /\ idx = Len(package_managers)) ->
                       /\ strategies' = SetLast(strategies, Strat("Fallback", "false"))
                       /\ idx' = 0
                       /\ Goto(main_after_install_failed)
    /\ UNCHANGED <<platform, euid, osrelease, warned, distro, script, setupCalls>>
    /\ TwinFollows

\* main, lines 191-195: the check after install_nodejs() returned True
Verify ==
    /\ pc = "verify"
    /\ \E r \in Results :
         /\ log' = Append(log, Event("check", <<"node", "--version">>, r, ""))
         /\ IF check_node_raises(r) THEN Crash
            ELSE Goto(main_after_verify(check_node_installed(r)))
    /\ UNCHANGED <<platform, euid, osrelease, warned, distro, idx, script,
                   strategies, setupCalls>>
    /\ TwinFollows

\* main, line 200: setup("http"), then the script ends normally
Setup ==
    /\ pc = "setup"
    /\ log' = Append(log, Event("main", <<"setup", "http">>, "ok", ""))
    /\ setupCalls' = setupCalls + 1
    /\ pc' = "done"
    /\ outcome' = "success"
    /\ exitCode' = 0
    /\ UNCHANGED <<platform, euid, osrelease, warned, distro, idx, script,
                   strategies>>
    /\ TwinFollows

Next ==
    \/ PlatformGate
    \/ PreCheck
    \/ DetectDistro
    \/ SelectStrategy
    \/ DebianStep
    \/ RedHatStep
    \/ FallbackStep
    \/ Verify
    \/ Setup

Spec == Init /\ [][Next]_vars

(***************************************************************************)
(* Views of a run used by the properties.                                  *)
(***************************************************************************)
EventsBy(k) == SelectSeq(log, LAMBDA e : e.by = k)

Checks == EventsBy("check")

StrategyEvents == SelectSeq(log, LAMBDA e : e.by \in {"Debian", "RedHat", "Fallback"})

Families == {"Debian", "RedHat"}

\* the first presence check has run and reported installed=true
FirstCheckInstalled == Len(Checks) >= 1 /\ Checks[1].res = "ok"

\* C1: when the first presence check reports installed=true, the distro is
\* never identified, no strategy is entered, no strategy command is spawned,
\* and the run goes to setup and ends in Done(success) with exit code 0.
C1_ShortCircuit ==
    FirstCheckInstalled =>
        /\ EventsBy("detect") = <<>>
        /\ StrategyEvents = <<>>
        /\ strategies = <<>>
        /\ Len(Checks) = 1
        /\ pc \in {"setup", "done"}
        /\ (pc = "done" => outcome = "success" /\ exitCode = 0)

C1_Witness ==
    /\ FirstCheckInstalled
    /\ pc = "done"
    /\ outcome = "success"
    /\ Len(log) = 2

\* the decision table of the specification, first match wins
DecisionTable(id, id_like) ==
    IF id \in {w_debian, w_ubuntu}
       \/ contains(id_like, w_debian) \/ contains(id_like, w_ubuntu)
    THEN "Debian"
    ELSE IF id \in {w_rhel, w_centos, w_fedora}
            \/ contains(id_like, w_rhel) \/ contains(id_like, w_fedora)
    THEN "RedHat"
    ELSE "Fallback"

\* a strategy has been entered for the identified distro
Selected == strategies # <<>>

\* C2 as stated: the strategy that install_nodejs runs first is the one the
\* decision table gives for (id, id_like), whatever the other field holds.
C2_AsStated ==
    Selected => strategies[1].kind = DecisionTable(distro.id, distro.id_like)

\* C2 (amended): the strategy run first is exactly one of Debian, RedHat and
\* Fallback; it is Fallback whenever id is empty or unknown, whatever id_like
\* holds, and for a non-empty id it is the kind the decision table gives.
C2_Selection ==
    Selected =>
        /\ distro = detect_linux_distro(osrelease)
        /\ strategies[1].kind \in {"Debian", "RedHat", "Fallback"}
        /\ strategies[1].kind =
             IF distro.id = <<>> THEN "Fallback"
             ELSE DecisionTable(distro.id, distro.id_like)

\* the first match wins: an id of the RedHat family with a Debian id_like
C2_Witness ==
    /\ Selected
    /\ distro.id = w_fedora
    /\ contains(distro.id_like, w_debian)
    /\ strategies[1].kind = "Debian"

\* an empty id with an id_like that names a family
C2_WitnessEmptyId ==
    /\ Selected
    /\ distro.id = <<>>
    /\ contains(distro.id_like, w_debian)
    /\ strategies[1].kind = "Fallback"

\* a family strategy that returned false
FamilyFailed ==
    \E i \in 1..Len(strategies) :
        strategies[i].kind \in Families /\ strategies[i].ret = "false"

\* C3 as stated: once the selected Debian or RedHat strategy has returned
\* false the run is in Done(failure) and no other strategy was attempted.
C3_AsStated ==
    FamilyFailed =>
        /\ Len(strategies) = 1
        /\ pc = "done"
        /\ outcome = "failure"

\* C3 (amended): when the selected Debian or RedHat strategy returns false,
\* the Fallback strategy is entered next and nothing else; the run then ends
\* in Done(failure) when Fallback returns false too, or when Fallback returns
\* true and the check after it finds no runtime.  A run executes at most two
\* strategies, and a second one is always Fallback after a failed family
\* strategy.
C3_FallbackAfterFamily ==
    /\ Len(strategies) <= 2
    /\ (FamilyFailed =>
          /\ Len(strategies) = 2
          /\ strategies[1].kind \in Families
          /\ strategies[1].ret = "false"
          /\ strategies[2].kind = "Fallback"
          /\ (strategies[2].ret = "running" => pc = "Fallback")
          /\ (outcome = "failure" =>
                \/ strategies[2].ret = "false"
                \/ /\ strategies[2].ret = "true"
                   /\ Len(Checks) = 2
                   /\ Checks[2].res # "ok")
          /\ (strategies[2].ret = "false" => outcome = "failure"))
    /\ (Len(strategies) = 2 =>
          /\ strategies[1].kind \in Families
          /\ strategies[1].ret = "false"
          /\ strategies[2].kind = "Fallback")

C3_Witness ==
    /\ FamilyFailed
    /\ strategies[2].ret = "true"
    /\ EventsBy("Fallback") # <<>>
    /\ outcome = "success"

\* the order in which the specification lists the package managers
ManagerOrder == <<"apt", "yum", "dnf", "zypper", "pacman">>

FallbackRet ==
    IF strategies # <<>> /\ strategies[Len(strategies)].kind = "Fallback"
    THEN strategies[Len(strategies)].ret
    ELSE "none"

\* the ways an invocation fails that the fallback loop itself handles
LoopFailures == {"fail", "notfound"}

\* C4: the Fallback strategy invokes the managers in the order apt, yum,
\* dnf, zypper, pacman; the invocations made are a prefix of that order in
\* which every invocation but the last failed (non-zero exit or missing
\* executable) and only the last one may have succeeded; it returns true
\* exactly when that last invocation succeeded, and then no later manager is
\* invoked.  It gives up before the end of the list only on a success or on
\* an invocation that could not be executed for another reason.
C4_FallbackOrder ==
    LET F == EventsBy("Fallback")
    IN  /\ Len(F) <= Len(ManagerOrder)
        /\ \A i \in 1..Len(F) :
              /\ F[i].argv[1] = "sudo"
              /\ F[i].argv[2] = ManagerOrder[i]
        /\ \A i \in 1..(Len(F) - 1) : F[i].res \in LoopFailures
        /\ (FallbackRet = "none" => F = <<>>)
        /\ (FallbackRet = "running" =>
              /\ \A i \in 1..Len(F) : F[i].res \in LoopFailures
              /\ Len(F) < Len(ManagerOrder))
        /\ (FallbackRet = "true" => Len(F) >= 1 /\ F[Len(F)].res = "ok")
        /\ (Len(F) >= 1 /\ F[Len(F)].res = "ok" => FallbackRet = "true")
        /\ (FallbackRet = "false" =>
              /\ Len(F) >= 1
              /\ F[Len(F)].res # "ok"
              /\ (F[Len(F)].res \in LoopFailures => Len(F) = Len(ManagerOrder)))

\* only dnf succeeds: apt, yum and dnf are attempted, zypper and pacman not
C4_Witness ==
    LET F == EventsBy("Fallback")
    IN  /\ FallbackRet = "true"
        /\ Len(F) = 3
        /\ F[3].argv[2] = "dnf"
        /\ F[1].res = "fail"
        /\ F[2].res = "notfound"
        /\ pc = "done"

\* a strategy reported success and the check after it reported the runtime
\* absent (check_node_installed returned False)
VerificationFailed ==
    /\ \E i \in 1..Len(strategies) : strategies[i].ret = "true"
    /\ Len(Checks) = 2
    /\ ~check_node_raises(Checks[2].res)
    /\ ~check_node_installed(Checks[2].res)

\* C5: when a strategy reports success and the post-install presence check
\* reports the runtime absent, the run ends in Done(failure) with exit code
\* 1 and setup is not invoked.
C5_VerificationFatal ==
    VerificationFailed =>
        /\ pc = "done"
        /\ outcome = "failure"
        /\ exitCode = 1
        /\ setupCalls = 0
        /\ EventsBy("main") = <<>>

C5_Witness ==
    /\ VerificationFailed
    /\ strategies[1] = Strat("Debian", "true")
    /\ Checks[2].res = "notfound"
    /\ exitCode = 1

\* the executable of the last command spawned could not be located
NotFoundSeen == log # <<>> /\ log[Len(log)].res = "notfound"

\* C6: a command whose executable cannot be located never makes the run end
\* in an uncaught exception: right after such a command the run either goes
\* on or has ended in Done(success) or Done(failure).
C6_AsStated ==
    NotFoundSeen =>
        /\ outcome # "crash"
        /\ (pc = "done" => outcome \in {"success", "failure"})

\* no line of the content is a KEY=value pair
Malformed(content) ==
    LET lines == split_lines(content)
    IN  \A i \in 1..Len(lines) :
            ~has_char(lines[i], "=") \/ first_index(lines[i], "=") = 1

Unidentifiable == osrelease.state # "ok" \/ Malformed(osrelease.content)

Identified == EventsBy("detect") # <<>>

\* C7: when the OS-release file is missing, unreadable or malformed, the
\* identification ends without an exception (the run goes on to the
\* selection) with an empty id and an empty id_like, the Fallback strategy
\* is the one entered, and no command of the Debian or RedHat strategy is
\* executed.
C7_UnidentifiedToFallback ==
    (Unidentifiable /\ Identified) =>
        /\ distro.id = <<>>
        /\ distro.id_like = <<>>
        /\ (log[Len(log)].by = "detect" =>
              pc \in {"select", "Fallback"} /\ outcome = "none")
        /\ (outcome = "crash" => log[Len(log)].by = "check")
        /\ pc # "Debian" /\ pc # "RedHat"
        /\ (pc # "select" => strategies = <<Strat("Fallback", strategies[1].ret)>>)
        /\ EventsBy("Debian") = <<>>
        /\ EventsBy("RedHat") = <<>>

C7_Witness ==
    /\ osrelease.state = "ok"
    /\ osrelease.content = w_debian \o NL \o w_debian
    /\ Identified
    /\ EventsBy("Fallback") # <<>>

C7_WitnessMissing ==
    /\ osrelease.state = "missing"
    /\ Identified
    /\ EventsBy("Fallback") # <<>>

\* C8: on a host that is not Linux the run ends with exit code 1 before
\* anything is spawned or read, and setup is never invoked.
C8_UnsupportedPlatform ==
    (platform # "Linux" /\ pc # "start") =>
        /\ pc = "done"
        /\ outcome = "failure"
        /\ exitCode = 1
        /\ log = <<>>
        /\ strategies = <<>>
        /\ distro = NoDistro
        /\ setupCalls = 0

C8_Witness ==
    /\ platform = "Darwin"
    /\ pc = "done"
    /\ exitCode = 1

\* the runtime was present at the first check, or a strategy succeeded and
\* the check after it found the runtime
SuccessPath ==
    \/ FirstCheckInstalled
    \/ /\ \E i \in 1..Len(strategies) : strategies[i].ret = "true"
       /\ Len(Checks) = 2
       /\ Checks[2].res = "ok"

\* C9: setup("http") is invoked at most once; it is invoked exactly in the
\* runs that reach Done(success), as the last thing after every presence
\* check and install command, and never in a run that ends in Done(failure).
C9_SetupOnSuccess ==
    /\ setupCalls \in {0, 1}
    /\ Len(EventsBy("main")) = setupCalls
    /\ (setupCalls = 1 =>
          /\ pc = "done"
          /\ outcome = "success"
          /\ exitCode = 0
          /\ SuccessPath
          /\ log[Len(log)] = Event("main", <<"setup", "http">>, "ok", ""))
    /\ (pc = "done" /\ SuccessPath => setupCalls = 1)
    /\ (outcome = "failure" => exitCode = 1 /\ setupCalls = 0 /\ ~SuccessPath)

C9_Witness ==
    /\ setupCalls = 1
    /\ outcome = "success"
    /\ ~FirstCheckInstalled
    /\ strategies = <<Strat("Debian", "true")>>
    /\ Len(log) = 10

\* position of a command in the stated order of steps: refresh the package
\* index, ensure the prerequisites, fetch the script, execute it, install
StepRank(argv) ==
    CASE argv[1] = "curl" -> 3
      [] argv[1] = "sudo" /\ argv[2] = "-E" /\ argv[3] = "bash" -> 4
      [] argv[1] = "sudo" /\ argv[3] = "update" -> 1
      [] argv[1] = "sudo" /\ argv[3] = "install" /\ argv[5] = "curl" -> 2
      [] argv[1] = "sudo" /\ argv[3] = "install" /\ argv[5] = "nodejs" -> 5
      [] OTHER -> 0

\* the steps the specification lists for each family strategy
StatedSteps(kind) == IF kind = "Debian" THEN {1, 2, 3, 4, 5} ELSE {2, 3, 4, 5}

FamilyManager(kind) == IF kind = "Debian" THEN "apt" ELSE "yum"

FamilyRet(kind) ==
    IF strategies # <<>> /\ strategies[1].kind = kind
    THEN strategies[1].ret ELSE "none"

FamilyInOrder(kind) ==
    LET E == EventsBy(kind)
        ranks == {StepRank(E[i].argv) : i \in 1..Len(E)}
    IN  /\ ranks \subseteq StatedSteps(kind)
        /\ \A i, j \in 1..Len(E) :
              i < j => StepRank(E[i].argv) <= StepRank(E[j].argv)
        /\ \A i \in 1..Len(E) :
              StepRank(E[i].argv) \in {1, 2, 5} => E[i].argv[2] = FamilyManager(kind)
        /\ \A i \in 1..(Len(E) - 1) : E[i].res = "ok"
        /\ (FamilyRet(kind) = "none" => E = <<>>)
        /\ (FamilyRet(kind) = "running" => \A i \in 1..Len(E) : E[i].res = "ok")
        /\ (FamilyRet(kind) = "false" => Len(E) >= 1 /\ E[Len(E)].res = "fail")
        /\ (Len(E) >= 1 /\ E[Len(E)].res = "fail" => FamilyRet(kind) = "false")
        /\ (FamilyRet(kind) = "true" =>
              /\ ranks = StatedSteps(kind)
              /\ \A i \in 1..Len(E) : E[i].res = "ok")

\* C10: the commands of the Debian and of the RedHat strategy are executed
\* in the stated order of steps with the family's package manager; no
\* command follows one that exited non-zero, the strategy returns false
\* exactly when its last command exited non-zero, and it returns true only
\* after every step was executed and exited zero.
C10_FamilyStepsInOrder == FamilyInOrder("Debian") /\ FamilyInOrder("RedHat")

\* the Debian strategy aborted at the elevated execution of the script
C10_Witness ==
    LET E == EventsBy("Debian")
    IN  /\ FamilyRet("Debian") = "false"
        /\ Len(E) = 5
        /\ StepRank(E[5].argv) = 4
        /\ E[5].res = "fail"
        /\ pc = "done"

\* C11: the pipeline does not retry: no command of an install strategy is
\* spawned a second time in a run (each Fallback manager is attempted at most
\* once), the distro is identified at most once and the presence check is
\* run at most twice (pre-check and verification).
C11_AsStated ==
    /\ \A i, j \in 1..Len(StrategyEvents) :
          i < j => StrategyEvents[i].argv # StrategyEvents[j].argv
    /\ Len(Checks) <= 2
    /\ Len(EventsBy("detect")) <= 1

\* the whitespace-separated tokens of a text
RECURSIVE Tokens(_)
Tokens(s) ==
    IF s = <<>> THEN {}
    ELSE IF s[1] = " " THEN Tokens(Tail(s))
    ELSE LET n == IF has_char(s, " ") THEN first_index(s, " ") ELSE Len(s) + 1
         IN  {SubSeq(s, 1, n - 1)} \cup Tokens(SubSeq(s, n + 1, Len(s)))

\* C12: a family strategy is selected through id_like only when one of the
\* whitespace-separated tokens of id_like equals debian or ubuntu (Debian) or
\* rhel or fedora (RedHat); a token that only contains such a word does not
\* select the family.
C12_AsStated ==
    Selected =>
        /\ (strategies[1].kind = "Debian" /\ distro.id \notin {w_debian, w_ubuntu}
              => Tokens(distro.id_like) \cap {w_debian, w_ubuntu} # {})
        /\ (strategies[1].kind = "RedHat" /\ distro.id \notin {w_rhel, w_centos, w_fedora}
              => Tokens(distro.id_like) \cap {w_rhel, w_fedora} # {})

\* C13: when the invocations of the Fallback strategy fail by a non-zero
\* exit or a missing executable, it returns false only after apt, yum, dnf,
\* zypper and pacman were each invoked exactly once, in that order, and it
\* does return false once all five have failed so; no exception escapes it
\* (a run in which it returned false is in Done(failure)); it returns true
\* if and only if one of its invocations exited zero, and it has returned
\* once all five were made.
C13_FallbackExhaustion ==
    LET F == EventsBy("Fallback")
        managers == [i \in 1..Len(F) |-> F[i].argv[2]]
        allFailed == \A i \in 1..Len(F) : F[i].res \in {"fail", "notfound"}
    IN  /\ (FallbackRet = "false" /\ allFailed => managers = ManagerOrder)
        /\ (Len(F) = Len(ManagerOrder) /\ allFailed => FallbackRet = "false")
        /\ (FallbackRet = "false" =>
              /\ pc = "done"
              /\ outcome = "failure"
              /\ exitCode = 1)
        /\ (FallbackRet = "true" <=> \E i \in 1..Len(F) : F[i].res = "ok")
        /\ FallbackRet # "raised"
        /\ (Len(F) = Len(ManagerOrder) => FallbackRet \in {"true", "false"})

\* sudo itself is missing: all five invocations raise FileNotFoundError
C13_Witness ==
    LET F == EventsBy("Fallback")
    IN  /\ FallbackRet = "false"
        /\ Len(F) = 5
        /\ \A i \in 1..Len(F) : F[i].res = "notfound"
        /\ outcome = "failure"

StrategySucceeded == \E i \in 1..Len(strategies) : strategies[i].ret = "true"

\* C14: on Linux the presence check is spawned once in a run where it first
\* reports installed or where no strategy returns true, and twice in a run
\* where a strategy returns true; after a successful strategy the outcome
\* follows the second check alone, although the first one reported absent:
\* success exactly when it exits zero, failure exactly when it reports the
\* runtime absent.
C14_CheckNotCached ==
    /\ Len(Checks) <= 2
    /\ (pc = "verify" => Len(Checks) = 1 /\ StrategySucceeded)
    /\ (pc = "done" /\ platform = "Linux" =>
          /\ (FirstCheckInstalled => Len(Checks) = 1)
          /\ (~StrategySucceeded => Len(Checks) = 1)
          /\ (StrategySucceeded =>
                /\ Len(Checks) = 2
                /\ Checks[1].res \in {"fail", "notfound"}
                /\ (outcome = "success" <=> Checks[2].res = "ok")
                /\ (outcome = "failure" <=> Checks[2].res \in {"fail", "notfound"})))

C14_Witness ==
    /\ pc = "done"
    /\ StrategySucceeded
    /\ Len(Checks) = 2
    /\ Checks[1].res = "notfound"
    /\ Checks[2].res = "ok"
    /\ outcome = "success"

\* C15: a second run on the same host that differs from the first only in
\* whether its effective user id is 0, and whose commands end as those of
\* the first run do, spawns the same commands in the same order and has the
\* same position, outcome and exit code at every step; the only difference
\* is the warning, given exactly to the run that is not root.
C15_PrivilegeOnlyWarns ==
    /\ twin.platform = platform
    /\ twin.osrelease = osrelease
    /\ (twin.euid = RootUid) # (euid = RootUid)
    /\ twin.log = log
    /\ twin.pc = pc
    /\ twin.strategies = strategies
    /\ twin.outcome = outcome
    /\ twin.exitCode = exitCode
    /\ twin.setupCalls = setupCalls
    /\ (pc # "start" /\ platform = "Linux" =>
          /\ (warned <=> euid # RootUid)
          /\ (twin.warned <=> twin.euid # RootUid))

C15_Witness ==
    /\ pc = "done"
    /\ outcome = "success"
    /\ twin.outcome = "success"
    /\ warned
    /\ ~twin.warned
    /\ EventsBy("RedHat") # <<>>
    /\ Len(twin.log) = Len(log)

IsFetch(e) == e.argv[1] = "curl"

IsElevatedExec(e) ==
    Len(e.argv) = 5 /\ e.argv[1] = "sudo" /\ e.argv[3] = "bash" /\ e.argv[4] = "-c"

\* C16: a fetch (curl) or an elevated 'bash -c' is spawned only by the
\* Debian or RedHat strategy, in a run whose distro selected that strategy,
\* and never by the Fallback strategy; every elevated execution directly
\* follows a fetch of the same strategy that exited zero, and the text it
\* executes is the output captured from that fetch.
C16_TrustBoundary ==
    \A i \in 1..Len(log) :
        /\ (IsFetch(log[i]) \/ IsElevatedExec(log[i]) =>
              /\ log[i].by \in Families
              /\ strategies[1].kind = log[i].by
              /\ install_nodejs_first(distro) = log[i].by)
        /\ (IsElevatedExec(log[i]) =>
              /\ i > 1
              /\ IsFetch(log[i-1])
              /\ log[i-1].by = log[i].by
              /\ log[i-1].res = "ok"
              /\ log[i-1].out \in Scripts
              /\ log[i].argv[5] = log[i-1].out)

\* the two Debian fetches printed different scripts; the second one is run
C16_Witness ==
    \E i \in 3..Len(log) :
        /\ IsElevatedExec(log[i])
        /\ log[i].by = "Debian"
        /\ IsFetch(log[i-2])
        /\ log[i-2].out = "scriptA"
        /\ log[i-1].out = "scriptB"
        /\ log[i].argv[5] = "scriptB"

\* the parsing policy, stated on its own: the value of a key is taken from
\* the last line that has an '=' and whose text before the first '=' is the
\* key; it is the text after that first '=', without the double quotes
\* around it, lower-cased; it is empty when there is no such line
PolicyField(content, key) ==
    LET lines == split_lines(content)
        hits  == {i \in 1..Len(lines) :
                    \E p \in 1..Len(lines[i]) :
                        /\ lines[i][p] = "="
                        /\ \A q \in 1..(p-1) : lines[i][q] # "="
                        /\ SubSeq(lines[i], 1, p-1) = key}
    IN  IF hits = {} THEN <<>>
        ELSE LET l == lines[CHOOSE i \in hits : \A j \in hits : j <= i]
                 p == CHOOSE p \in 1..Len(l) :
                          l[p] = "=" /\ \A q \in 1..(p-1) : l[q] # "="
                 v == SubSeq(l, p + 1, Len(l))
                 inner == {i \in 1..Len(v) : v[i] # "\""}
             IN  IF inner = {} THEN <<>>
                 ELSE lower(SubSeq(v, CHOOSE a \in inner : \A b \in inner : a <= b,
                                      CHOOSE a \in inner : \A b \in inner : b <= a))

UbuntuSpellings ==
    { k_ID \o EQ \o w_ubuntu,
      k_ID \o EQ \o <<"U">> \o Tail(w_ubuntu),
      k_ID \o EQ \o QT \o w_ubuntu \o QT,
      k_ID \o EQ \o QT \o <<"U">> \o Tail(w_ubuntu) \o QT }

\* C17: for every readable content the identified id and id_like are what
\* the parsing policy gives: split on the first '=' only, double quotes
\* around the value removed, lines without '=' ignored, empty text for an
\* absent key, lower-cased; ID=Ubuntu, ID="ubuntu" and ID=ubuntu give ubuntu.
C17_ParsingPolicy ==
    (Identified /\ osrelease.state = "ok") =>
        /\ distro.known
        /\ distro.id = PolicyField(osrelease.content, k_ID)
        /\ distro.id_like = PolicyField(osrelease.content, k_ID_LIKE)
        /\ (osrelease.content \in UbuntuSpellings => distro.id = w_ubuntu)
        /\ \A i \in 1..Len(distro.id) :
              ~ \E u \in 1..Len(UpperChars) : UpperChars[u] = distro.id[i]

\* a value that contains '=' is kept whole
C17_Witness ==
    /\ Identified
    /\ osrelease.content =
         k_ID \o EQ \o w_rhel \o NL \o k_ID_LIKE \o EQ \o <<"a">> \o EQ \o w_fedora
    /\ distro.id = w_rhel
    /\ distro.id_like = <<"a">> \o EQ \o w_fedora

\* the three spellings of the claim all give the id ubuntu
C17_WitnessQuoted ==
    /\ Identified
    /\ osrelease.content = k_ID \o EQ \o QT \o w_ubuntu \o QT
    /\ distro.id = w_ubuntu

\* C18: commands of the Debian and of the RedHat strategy never occur in the
\* same run, and once a family strategy has returned true it is the only
\* strategy of the run: no Fallback package-manager command is spawned.
C18_FamiliesExclusive ==
    /\ ~(EventsBy("Debian") # <<>> /\ EventsBy("RedHat") # <<>>)
    /\ \A i \in 1..Len(strategies) :
          strategies[i].kind \in Families => i = 1
    /\ ((\E i \in 1..Len(strategies) :
            strategies[i].kind \in Families /\ strategies[i].ret = "true") =>
          /\ Len(strategies) = 1
          /\ EventsBy("Fallback") = <<>>
          /\ pc \in {"verify", "setup", "done"})

C18_Witness ==
    /\ strategies = <<Strat("RedHat", "true")>>
    /\ Len(EventsBy("RedHat")) = 4
    /\ EventsBy("Debian") = <<>>
    /\ pc = "done"

====
